---- MODULE Spec2Model ----
(***************************************************************************)
(* Product store service (service/routes.py): the HTTP handlers over the   *)
(* Product resource, the filter dispatch of the list path and the          *)
(* field-update transform table of the update path.                        *)
(*                                                                         *)
(* One action per request; an action runs its whole handler.  The Product  *)
(* entity and its store (service/models.py) are not part of the sources    *)
(* at hand and are modelled from the specification's section 3.            *)
(***************************************************************************)
EXTENDS Integers, Sequences, FiniteSets, TLC

\* Number of products a run may create (ids handed out by the store).
MaxProducts == 2
\* Largest number of entries of a PUT mapping body.
MaxBody == 2

(***************************************************************************)
(* JSON values as request.get_json() delivers them, tagged by Python type. *)
(* A mapping keeps its entries in insertion order (dict iteration order).  *)
(***************************************************************************)
JStr(s) == [t |-> "str", s |-> s]
JBool(b) == [t |-> "bool", b |-> b]
JInt(n) == [t |-> "int", n |-> n]
JNull == [t |-> "null"]
JArr(a) == [t |-> "arr", a |-> a]
JObj(o) == [t |-> "obj", o |-> o]
Entry(k, v) == [k |-> k, v |-> v]
\* A request body that is no JSON document at all: get_json() aborts on it.
Malformed == [t |-> "malformed"]
\* A request without any body (and so without a JSON content type).
Absent == [t |-> "absent"]

(***************************************************************************)
(* Python built-ins the handlers rely on.                                  *)
(***************************************************************************)
Char(s, i) == SubSeq(s, i, i)

DigitChar(d) ==
    CASE d = 0 -> "0" [] d = 1 -> "1" [] d = 2 -> "2" [] d = 3 -> "3"
      [] d = 4 -> "4" [] d = 5 -> "5" [] d = 6 -> "6" [] d = 7 -> "7"
      [] d = 8 -> "8" [] d = 9 -> "9"

DigitVal(c) ==
    CASE c = "0" -> 0 [] c = "1" -> 1 [] c = "2" -> 2 [] c = "3" -> 3
      [] c = "4" -> 4 [] c = "5" -> 5 [] c = "6" -> 6 [] c = "7" -> 7
      [] c = "8" -> 8 [] c = "9" -> 9 [] OTHER -> -1

RECURSIVE IntToStr(_)
\* str(n) for an integer n.
IntToStr(n) ==
    IF n < 0 THEN "-" \o IntToStr(-n)
    ELSE IF n < 10 THEN DigitChar(n)
    ELSE IntToStr(n \div 10) \o DigitChar(n % 10)

RECURSIVE Zeros(_)
Zeros(n) == IF n <= 0 THEN "" ELSE "0" \o Zeros(n - 1)

RECURSIVE PyReprList(_, _)
\* The elements of repr(list) for a list of strings, from index i on.
PyReprList(a, i) ==
    IF i > Len(a) THEN ""
    ELSE (IF i > 1 THEN ", " ELSE "") \o "'" \o a[i].s \o "'" \o PyReprList(a, i + 1)

\* str(value), as the f-string of the invalid-value message formats it.
\* Lists hold strings only; mappings are never formatted by the model.
PyStr(v) ==
    CASE v.t = "str" -> v.s
      [] v.t = "int" -> IntToStr(v.n)
      [] v.t = "bool" -> (IF v.b THEN "True" ELSE "False")
      [] v.t = "null" -> "None"
      [] v.t = "arr" -> "[" \o PyReprList(v.a, 1) \o "]"

\* len(value) raises TypeError for values without a length.
HasLen(v) == v.t \in {"str", "arr", "obj"}
PyLen(v) ==
    CASE v.t = "str" -> Len(v.s)
      [] v.t = "arr" -> Len(v.a)
      [] v.t = "obj" -> Len(v.o)

\* A membership test on a dict (Category.__members__) hashes the candidate.
Hashable(v) == v.t \notin {"arr", "obj"}

(***************************************************************************)
(* decimal.Decimal(text) and str(Decimal) for plain decimal literals:      *)
(* surrounding blanks are stripped, then [sign] digits [. digits]; any     *)
(* other text raises InvalidOperation.  (Exponent notation, underscores    *)
(* and the special values are outside the texts the model draws.)          *)
(***************************************************************************)
RECURSIVE LStrip(_)
LStrip(s) == IF Len(s) > 0 /\ Char(s, 1) = " " THEN LStrip(SubSeq(s, 2, Len(s))) ELSE s

RECURSIVE RStrip(_)
RStrip(s) ==
    IF Len(s) > 0 /\ Char(s, Len(s)) = " " THEN RStrip(SubSeq(s, 1, Len(s) - 1)) ELSE s

InvalidOperation == [ok |-> FALSE]

RECURSIVE ScanDecimal(_, _, _, _, _, _, _)
ScanDecimal(s, i, neg, coeff, frac, point, nd) ==
    IF i > Len(s)
    THEN IF nd = 0 THEN InvalidOperation
         ELSE [ok |-> TRUE, d |-> [neg |-> neg, coeff |-> coeff, exp |-> -frac]]
    ELSE LET c == Char(s, i) IN
         IF DigitVal(c) >= 0
         THEN ScanDecimal(s, i + 1, neg, coeff * 10 + DigitVal(c),
                          IF point THEN frac + 1 ELSE frac, point, nd + 1)
         ELSE IF c = "." /\ ~point
         THEN ScanDecimal(s, i + 1, neg, coeff, frac, TRUE, nd)
         ELSE InvalidOperation

Decimal(text) ==
    LET s == RStrip(LStrip(text)) IN
    IF Len(s) > 0 /\ Char(s, 1) \in {"+", "-"}
    THEN ScanDecimal(s, 2, Char(s, 1) = "-", 0, 0, FALSE, 0)
    ELSE ScanDecimal(s, 1, FALSE, 0, 0, FALSE, 0)

\* str(Decimal) in the plain (non-scientific) range: exp <= 0 and more than
\* -6 digits left of the point.
DecimalStr(d) ==
    LET digits == IntToStr(d.coeff)
        dotplace == d.exp + Len(digits)
        body == IF dotplace <= 0
                THEN "0." \o Zeros(-dotplace) \o digits
                ELSE IF dotplace >= Len(digits)
                THEN digits \o Zeros(dotplace - Len(digits))
                ELSE SubSeq(digits, 1, dotplace) \o "." \o
                     SubSeq(digits, dotplace + 1, Len(digits))
    IN  (IF d.neg THEN "-" ELSE "") \o body

(***************************************************************************)
(* The Product entity and its store (section 3 of the specification).      *)
(***************************************************************************)
\* Member names of the Category enumeration.
CategoryMembers == {"UNKNOWN", "CLOTHS", "HOUSEWARES"}
\* Category[name]: the enumeration value of a member name.
CategoryGetItem(name) == [enum |-> name]

\* The id of an entity that was never persisted (None).
NoId == 0

\* Product.serialize(): the wire form of an entity.
serialize(p) ==
    [id |-> p.id, name |-> p.name, description |-> p.description,
     price |-> DecimalStr(p.price), available |-> p.available,
     category |-> p.category.enum]

\* Product.find(id): the persisted product or None.
Found(db, id) == id \in DOMAIN db
\* Product.all() and the find_by_* queries.
all(db) == {db[i] : i \in DOMAIN db}
find_by_name(db, name) == {p \in all(db) : p.name = name}
find_by_category(db, category) == {p \in all(db) : p.category = category}
find_by_availability(db, available) == {p \in all(db) : p.available = available}

\* update(): persists the entity under its id.
update(db, p) == [db EXCEPT ![p.id] = p]
\* delete(): removes the persisted state.
delete(db, id) == [i \in DOMAIN db \ {id} |-> db[i]]


\* deserialize(data): the entity built from an untyped mapping, or a
\* validation error (absent mapping, missing key, wrong available/category,
\* unparsable price).
ObjHas(o, key) == \E i \in 1..Len(o) : o[i].k = key
ObjGet(o, key) == o[CHOOSE i \in 1..Len(o) : o[i].k = key].v
ProductFields == <<"name", "description", "price", "available", "category">>

deserialize(data) ==
    IF data.t /= "obj" THEN [ok |-> FALSE]
    ELSE IF \E i \in 1..Len(ProductFields) : ~ObjHas(data.o, ProductFields[i])
    THEN [ok |-> FALSE]
    ELSE LET name == ObjGet(data.o, "name")
             description == ObjGet(data.o, "description")
             price == ObjGet(data.o, "price")
             available == ObjGet(data.o, "available")
             category == ObjGet(data.o, "category")
         IN  IF \/ name.t /= "str" \/ description.t /= "str" \/ price.t /= "str"
                \/ available.t /= "bool"
                \/ category.t /= "str"
             THEN [ok |-> FALSE]
             ELSE IF category.s \notin CategoryMembers \/ ~Decimal(price.s).ok
             THEN [ok |-> FALSE]
             ELSE [ok |-> TRUE,
                   p |-> [id |-> NoId, name |-> name.s, description |-> description.s,
                          price |-> Decimal(price.s).d, available |-> available.b,
                          category |-> CategoryGetItem(category.s)]]

\* create(): assigns the next id of the store's sequence and persists.
create(db, p, id) ==
    [i \in DOMAIN db \cup {id} |-> IF i = id THEN [p EXCEPT !.id = id] ELSE db[i]]

(***************************************************************************)
(* Responses and the record of what a handler did.                         *)
(***************************************************************************)
HTTP_200_OK == 200
HTTP_201_CREATED == 201
HTTP_204_NO_CONTENT == 204
HTTP_400_BAD_REQUEST == 400
HTTP_404_NOT_FOUND == 404
HTTP_415_UNSUPPORTED_MEDIA_TYPE == 415
HTTP_422_UNPROCESSABLE_ENTITY == 422
\* An exception no handler catches ends the request as a server error.
HTTP_500_INTERNAL_SERVER_ERROR == 500

\* A (body, status) tuple returned by a handler: plain text.
TextResponse(text, status) ==
    [status |-> status, kind |-> "text", text |-> text, items |-> {}, location |-> ""]
\* A serialized product (a dict return or jsonify).
ObjectResponse(item, status, location) ==
    [status |-> status, kind |-> "object", text |-> "", items |-> {item},
     location |-> location]
\* A list of serialized products; the store fixes no order, so the list is
\* kept as the set of its items (ids are unique, no item repeats).
ListResponse(items) ==
    [status |-> HTTP_200_OK, kind |-> "list", text |-> "", items |-> items,
     location |-> ""]
\* abort(status) or an uncaught exception: the body comes from the error
\* handlers, outside the handlers modelled here.
AbortResponse(status) ==
    [status |-> status, kind |-> "abort", text |-> "", items |-> {}, location |-> ""]

\* One step a handler took: a store call or a step of the update loop.
Ev(name, arg) == [ev |-> name, arg |-> arg]

\* What a handler leaves behind: its response, the store, the steps it took
\* and the in-memory entity it worked on (none: the empty sequence).
Outcome(resp, db, evs, ent) == [resp |-> resp, db |-> db, events |-> evs, entity |-> ent]


(***************************************************************************)
(* POST /products                                                          *)
(***************************************************************************)
\* The media type check comparing only the start of the header, so that
\* parameters after the media type pass.
check_content_type_prefix(headers, content_type) ==
    IF "Content-Type" \notin DOMAIN headers THEN FALSE
    ELSE LET h == headers["Content-Type"] IN
         Len(h) >= Len(content_type) /\ SubSeq(h, 1, Len(content_type)) = content_type

\* check_content_type: TRUE when the request passes, FALSE when it aborts.
check_content_type(headers, content_type) ==
    IF "Content-Type" \notin DOMAIN headers THEN FALSE
    ELSE headers["Content-Type"] = content_type

\* url_for("get_products", product_id=id): the URL the read route answers.
url_for_get_products(product_id) == "/products/" \o IntToStr(product_id)

\* The create handler serializing the entity before create() gave it an id.
create_products_serialize_first(db, id, headers, data) ==
    IF ~check_content_type(headers, "application/json")
    THEN Outcome(AbortResponse(HTTP_415_UNSUPPORTED_MEDIA_TYPE), db, <<>>, <<>>)
    ELSE IF data.t = "malformed"
    THEN Outcome(AbortResponse(HTTP_400_BAD_REQUEST), db, <<>>, <<>>)
    ELSE LET r == deserialize(data) IN
         IF ~r.ok
         THEN Outcome(AbortResponse(HTTP_400_BAD_REQUEST), db, <<Ev("deserialize", "")>>, <<>>)
         ELSE Outcome(ObjectResponse(serialize(r.p), HTTP_201_CREATED,
                                     url_for_get_products(r.p.id)),
                      create(db, r.p, id),
                      <<Ev("deserialize", ""), Ev("create", IntToStr(id))>>,
                      <<[r.p EXCEPT !.id = id]>>)

create_products(db, id, headers, data) ==
    IF ~check_content_type(headers, "application/json")
    THEN Outcome(AbortResponse(HTTP_415_UNSUPPORTED_MEDIA_TYPE), db, <<>>, <<>>)
    ELSE IF data.t = "malformed"
    THEN Outcome(AbortResponse(HTTP_400_BAD_REQUEST), db, <<>>, <<>>)
    ELSE LET r == deserialize(data) IN
         IF ~r.ok
         THEN Outcome(AbortResponse(HTTP_400_BAD_REQUEST), db, <<Ev("deserialize", "")>>, <<>>)
         ELSE LET product == [r.p EXCEPT !.id = id]
                  message == serialize(product)
                  location_url == url_for_get_products(product.id)
              IN  Outcome(ObjectResponse(message, HTTP_201_CREATED, location_url),
                          create(db, r.p, id),
                          <<Ev("deserialize", ""), Ev("create", IntToStr(id))>>,
                          <<product>>)

(***************************************************************************)
(* GET /products: the filter dispatch.                                     *)
(***************************************************************************)
\* A ResponseError, or the products a filter found.
ResponseError(body, status) ==
    [error |-> TRUE, body |-> body, status |-> status, products |-> {}, events |-> <<>>]
Products(ps, ev) ==
    [error |-> FALSE, body |-> "", status |-> HTTP_200_OK, products |-> ps,
     events |-> <<ev>>]

\* The name filter without its check of the empty name.
filter_by_name_unchecked(db, name) ==
    Products(find_by_name(db, name), Ev("find_by_name", name))

filter_by_name(db, name) ==
    IF name = ""
    THEN ResponseError("name must not be empty", HTTP_400_BAD_REQUEST)
    ELSE Products(find_by_name(db, name), Ev("find_by_name", name))

\* The category filter without its check of the member name.
filter_by_category_unvalidated(db, category) ==
    Products(find_by_category(db, CategoryGetItem(category)),
             Ev("find_by_category", category))

filter_by_category(db, category) ==
    IF category \notin CategoryMembers
    THEN ResponseError("category '" \o category \o "' is not valid", HTTP_400_BAD_REQUEST)
    ELSE Products(find_by_category(db, CategoryGetItem(category)),
                  Ev("find_by_category", category))

\* The availability filter taking every text other than "true" as false.
filter_by_availability_unvalidated(db, available) ==
    Products(find_by_availability(db, available = "true"),
             Ev("find_by_availability", IF available = "true" THEN "True" ELSE "False"))

filter_by_availability(db, available) ==
    IF available \notin {"true", "false"}
    THEN ResponseError("available value '" \o available \o "' is not true or false",
                       HTTP_400_BAD_REQUEST)
    ELSE Products(find_by_availability(db, available = "true"),
                  Ev("find_by_availability", IF available = "true" THEN "True" ELSE "False"))

\* The filters registered in another order.
filters_reordered == <<"available", "category", "name">>

\* The registered (key, handler) pairs, in registration order.
filters == <<"name", "category", "available">>
filter_func(key, db, value) ==
    CASE key = "name" -> filter_by_name(db, value)
      [] key = "category" -> filter_by_category(db, value)
      [] key = "available" -> filter_by_availability(db, value)

RECURSIVE list_products_from(_, _, _, _)
\* The loop over the filters from index i on; evs: the store calls so far.
list_products_from(db, args, i, evs) ==
    IF i > Len(filters)
    THEN Outcome(ListResponse({serialize(p) : p \in all(db)}), db,
                 Append(evs, Ev("all", "")), <<>>)
    ELSE LET key == filters[i] IN
         IF key \notin DOMAIN args
         THEN list_products_from(db, args, i + 1, evs)
         ELSE LET products == filter_func(key, db, args[key]) IN
              IF products.error
              THEN Outcome(TextResponse(products.body, products.status), db,
                           evs \o products.events, <<>>)
              ELSE Outcome(ListResponse({serialize(p) : p \in products.products}), db,
                           evs \o products.events, <<>>)

list_products(db, args) == list_products_from(db, args, 1, <<Ev("all", "")>>)

(***************************************************************************)
(* GET /products/<id>                                                      *)
(***************************************************************************)
RECURSIVE StrToInt(_, _, _)
\* The <int:...> converter: the digits of s from index i on, or -1.
StrToInt(s, i, acc) ==
    IF i > Len(s) THEN acc
    ELSE IF DigitVal(Char(s, i)) < 0 THEN -1
    ELSE StrToInt(s, i + 1, acc * 10 + DigitVal(Char(s, i)))

\* The route /products/<int:product_id>: the id a URL is routed with, or -1
\* when the URL is not of this route.
route_get_products(url) ==
    IF Len(url) > 10 /\ SubSeq(url, 1, 10) = "/products/" THEN StrToInt(url, 11, 0)
    ELSE -1

get_products(db, product_id) ==
    IF ~Found(db, product_id)
    THEN Outcome(TextResponse("product not found", HTTP_404_NOT_FOUND), db,
                 <<Ev("find", IntToStr(product_id))>>, <<>>)
    ELSE Outcome(ObjectResponse(serialize(db[product_id]), HTTP_200_OK, ""), db,
                 <<Ev("find", IntToStr(product_id))>>, <<db[product_id]>>)

(***************************************************************************)
(* PUT /products/<id>: the field-update transform table.                   *)
(***************************************************************************)
\* A Transform: its predicate and its converter ("none": no converter).
Transform(matches, converts) == [matches |-> matches, converts |-> converts]

updateable ==
    [name |-> Transform("isinstance_str", "none"),
     description |-> Transform("isinstance_str", "none"),
     available |-> Transform("isinstance_bool", "none"),
     price |-> Transform("isinstance_str", "Decimal"),
     category |-> Transform("in_Category_members", "Category_getitem")]

\* transform.matches(value): "yes", "no", or "raise" when the predicate
\* itself throws (membership test on an unhashable value).
matches(transform, value) ==
    CASE transform.matches = "isinstance_str" ->
            (IF value.t = "str" THEN "yes" ELSE "no")
      [] transform.matches = "isinstance_bool" ->
            (IF value.t = "bool" THEN "yes" ELSE "no")
      [] transform.matches = "in_Category_members" ->
            (IF ~Hashable(value) THEN "raise"
             ELSE IF value.t = "str" /\ value.s \in CategoryMembers THEN "yes" ELSE "no")

\* The Python value of a JSON text or boolean.
PyValue(value) == IF value.t = "str" THEN value.s ELSE value.b

\* value if transform.converts is None else transform.converts(value):
\* the converted value, or a raise of the converter.
converts(transform, value) ==
    CASE transform.converts = "none" -> [ok |-> TRUE, v |-> PyValue(value)]
      [] transform.converts = "Decimal" ->
            (IF Decimal(value.s).ok THEN [ok |-> TRUE, v |-> Decimal(value.s).d]
             ELSE [ok |-> FALSE])
      [] transform.converts = "Category_getitem" ->
            [ok |-> TRUE, v |-> CategoryGetItem(value.s)]

setattr(product, key, converted) == [product EXCEPT ![key] = converted]

\* The result of the loop: the early return (failed) or the mutated entity.
LoopResult(failed, resp, product, evs) ==
    [failed |-> failed, resp |-> resp, product |-> product, events |-> evs]

\* The unknown-key error sent as a bad request.
unknown_key_response_400(key) ==
    TextResponse("key '" \o key \o "' is not a valid field", HTTP_400_BAD_REQUEST)

unknown_key_response(key) ==
    TextResponse("key '" \o key \o "' is not a valid field", HTTP_422_UNPROCESSABLE_ENTITY)

invalid_value_response(key, value) ==
    TextResponse("field '" \o key \o "' has an invalid value (" \o PyStr(value) \o ")",
                 HTTP_422_UNPROCESSABLE_ENTITY)

RECURSIVE update_loop(_, _, _, _)
\* for key, value in data.items(): from entry i on.
update_loop(product, items, i, evs) ==
    IF i > Len(items)
    THEN LoopResult(FALSE, AbortResponse(0), product, evs)
    ELSE LET key == items[i].k
             value == items[i].v
             e1 == Append(evs, Ev("get", key))
         IN  IF key \notin DOMAIN updateable
             THEN LoopResult(TRUE, unknown_key_response(key), product, e1)
             ELSE LET transform == updateable[key]
                      m == matches(transform, value)
                      e2 == Append(e1, Ev("matches", key))
                  IN  IF m = "raise"
                      THEN LoopResult(TRUE, AbortResponse(HTTP_500_INTERNAL_SERVER_ERROR),
                                      product, e2)
                      ELSE IF m = "no"
                      THEN LoopResult(TRUE, invalid_value_response(key, value), product, e2)
                      ELSE LET converted == converts(transform, value)
                               e3 == IF transform.converts = "none" THEN e2
                                     ELSE Append(e2, Ev("converts", key))
                           IN  IF ~converted.ok
                               THEN LoopResult(TRUE,
                                               AbortResponse(HTTP_500_INTERNAL_SERVER_ERROR),
                                               product, e3)
                               ELSE update_loop(setattr(product, key, converted.v), items,
                                                i + 1, Append(e3, Ev("setattr", key)))

\* The emptiness test with a strict comparison.
is_empty_strict(data) == PyLen(data) < 0

\* len(data) <= 0
is_empty(data) == PyLen(data) <= 0

\* A handler that persists the entity whether or not the loop failed.
finish_update_always_persists(db, loop) ==
    Outcome(IF loop.failed THEN loop.resp
            ELSE ObjectResponse(serialize(loop.product), HTTP_200_OK, ""),
            update(db, loop.product),
            Append(loop.events, Ev("update", IntToStr(loop.product.id))),
            <<loop.product>>)

\* After the loop: the early return, or update() and the serialized product.
finish_update(db, loop) ==
    IF loop.failed
    THEN Outcome(loop.resp, db, loop.events, <<loop.product>>)
    ELSE Outcome(ObjectResponse(serialize(loop.product), HTTP_200_OK, ""),
                 update(db, loop.product),
                 Append(loop.events, Ev("update", IntToStr(loop.product.id))),
                 <<loop.product>>)

\* The update handler reading the body before it looks the product up.
update_product_body_first(db, product_id, data) ==
    LET found == <<Ev("find", IntToStr(product_id))>> IN
    IF data.t \in {"malformed", "absent"}
    THEN Outcome(AbortResponse(HTTP_400_BAD_REQUEST), db, <<>>, <<>>)
    ELSE IF ~HasLen(data)
    THEN Outcome(AbortResponse(HTTP_500_INTERNAL_SERVER_ERROR), db, <<>>, <<>>)
    ELSE IF is_empty(data)
    THEN Outcome(TextResponse("body must be non-empty", HTTP_422_UNPROCESSABLE_ENTITY),
                 db, <<>>, <<>>)
    ELSE IF ~Found(db, product_id)
    THEN Outcome(TextResponse("product not found", HTTP_404_NOT_FOUND), db, found, <<>>)
    ELSE IF data.t /= "obj"
    THEN Outcome(AbortResponse(HTTP_500_INTERNAL_SERVER_ERROR), db, found,
                 <<db[product_id]>>)
    ELSE finish_update(db, update_loop(db[product_id], data.o, 1, found))

update_product(db, product_id, data) ==
    LET found == <<Ev("find", IntToStr(product_id))>> IN
    IF ~Found(db, product_id)
    THEN Outcome(TextResponse("product not found", HTTP_404_NOT_FOUND), db, found, <<>>)
    ELSE LET product == db[product_id] IN
         IF data.t \in {"malformed", "absent"}
         THEN Outcome(AbortResponse(HTTP_400_BAD_REQUEST), db, found, <<product>>)
         ELSE IF ~HasLen(data)
         THEN Outcome(AbortResponse(HTTP_500_INTERNAL_SERVER_ERROR), db, found, <<product>>)
         ELSE IF is_empty(data)
         THEN Outcome(TextResponse("body must be non-empty", HTTP_422_UNPROCESSABLE_ENTITY),
                      db, found, <<product>>)
         ELSE IF data.t /= "obj"
         THEN Outcome(AbortResponse(HTTP_500_INTERNAL_SERVER_ERROR), db, found, <<product>>)
         ELSE finish_update(db, update_loop(product, data.o, 1, found))

(***************************************************************************)
(* DELETE /products/<id>                                                   *)
(***************************************************************************)
\* The delete handler answering 204 without calling delete().
delete_product_keeps(db, product_id) ==
    IF ~Found(db, product_id)
    THEN Outcome(TextResponse("product not found", HTTP_404_NOT_FOUND), db,
                 <<Ev("find", IntToStr(product_id))>>, <<>>)
    ELSE Outcome(TextResponse("", HTTP_204_NO_CONTENT), db,
                 <<Ev("find", IntToStr(product_id))>>, <<db[product_id]>>)

delete_product(db, product_id) ==
    IF ~Found(db, product_id)
    THEN Outcome(TextResponse("product not found", HTTP_404_NOT_FOUND), db,
                 <<Ev("find", IntToStr(product_id))>>, <<>>)
    ELSE Outcome(TextResponse("", HTTP_204_NO_CONTENT), delete(db, product_id),
                 <<Ev("find", IntToStr(product_id)), Ev("delete", IntToStr(product_id))>>,
                 <<db[product_id]>>)


(***************************************************************************)
(* The service as a state machine: the store, and the last request with    *)
(* what its handler did.                                                   *)
(***************************************************************************)
VARIABLES
    db,         \* the persisted products, by id
    next_id,    \* the next id the store hands out
    request,    \* the last request
    response,   \* its response
    events,     \* the store calls and loop steps its handler made, in order
    entity,     \* the in-memory entity the handler worked on, if any
    before      \* the persisted products before the last request

vars == <<db, next_id, request, response, events, entity, before>>

\* The ids a product of a run can have.
ProductIds == 1..MaxProducts

NoHeaders == <<>>
NoArgs == <<>>
Request(method, product_id, headers, data, args) ==
    [method |-> method, product_id |-> product_id, headers |-> headers,
     data |-> data, args |-> args]

(***************************************************************************)
(* The requests a run draws from.                                          *)
(***************************************************************************)
ProductBody(name, description, price, available, category) ==
    JObj(<<Entry("name", name), Entry("description", description),
           Entry("price", price), Entry("available", available),
           Entry("category", category)>>)

\* The second body's price text is not in the decimal's canonical form.
ValidBodies ==
    {ProductBody(JStr("Fedora"), JStr("A red hat"), JStr("12.50"), JBool(TRUE),
                 JStr("CLOTHS")),
     ProductBody(JStr("Fedora"), JStr("A red hat"), JStr(" 12.50"), JBool(TRUE),
                 JStr("CLOTHS")),
     ProductBody(JStr("Hat"), JStr("A red hat"), JStr("7.5"), JBool(FALSE),
                 JStr("UNKNOWN"))}

InvalidBodies ==
    {JObj(<<Entry("description", JStr("A red hat")), Entry("price", JStr("12.50")),
            Entry("available", JBool(TRUE)), Entry("category", JStr("CLOTHS"))>>),
     ProductBody(JStr("Fedora"), JStr("A red hat"), JStr("12.50"), JInt(10),
                 JStr("CLOTHS")),
     ProductBody(JStr("Fedora"), JStr("A red hat"), JStr("12.50"), JBool(TRUE),
                 JStr("FAKE_CATEGORY")),
     JNull, Malformed}

PostHeaders ==
    {NoHeaders, "Content-Type" :> "application/json", "Content-Type" :> "plain/text",
     "Content-Type" :> "application/json; charset=utf-8"}

\* The entries a PUT mapping body is built from.
UpdateEntries ==
    {Entry("name", JStr("Hat")), Entry("name", JInt(10)),
     Entry("description", JStr("A red hat")),
     Entry("available", JBool(FALSE)), Entry("available", JInt(10)),
     Entry("price", JStr("12.50")), Entry("price", JStr("abc")),
     Entry("category", JStr("CLOTHS")), Entry("category", JStr("FAKE")),
     Entry("category", JArr(<<JStr("CLOTHS")>>)),
     Entry("id", JInt(7))}

\* Mappings of at most MaxBody entries with distinct keys, in every order.
Mappings ==
    {JObj(o) : o \in {q \in UNION {[1..n -> UpdateEntries] : n \in 0..MaxBody} :
                        \A i, j \in 1..Len(q) : i /= j => q[i].k /= q[j].k}}

\* JSON documents that are no mapping.
NonMappings ==
    {JArr(<<>>), JArr(<<JStr("CLOTHS")>>), JStr(""), JStr("name"), JInt(0), JInt(10),
     JBool(TRUE), JBool(FALSE), JNull}

PutData == Mappings \cup NonMappings \cup {Malformed, Absent}

QueryKeys == {"name", "category", "available"}
QueryValues(key) ==
    CASE key = "name" -> {"", "Hat", "Fedora"}
      [] key = "category" -> {"CLOTHS", "UNKNOWN", "HOUSEWARES", "FAKE"}
      [] key = "available" -> {"true", "false", "True", "1", "", "maybe"}
AllQueryValues == UNION {QueryValues(k) : k \in QueryKeys}
Queries ==
    {a \in UNION {[S -> AllQueryValues] : S \in SUBSET QueryKeys} :
        \A k \in DOMAIN a : a[k] \in QueryValues(k)}

(***************************************************************************)
(* Actions: one per request.                                               *)
(***************************************************************************)
\* No request is in flight: the request context is empty.
NoRequest == Request("NONE", NoId, NoHeaders, JNull, NoArgs)
NoResponse == AbortResponse(0)
Idle == request = NoRequest

Init ==
    /\ db = <<>>
    /\ next_id = 1
    /\ request = NoRequest
    /\ response = NoResponse
    /\ events = <<>>
    /\ entity = <<>>
    /\ before = <<>>

\* The handler's outcome becomes the state.
Handled(req, out) ==
    /\ request' = req
    /\ response' = out.resp
    /\ events' = out.events
    /\ entity' = out.entity
    /\ before' = db
    /\ db' = out.db

\* Requests are served one at a time: each handler starts with no request in
\* flight.
CreateProducts ==
    /\ Idle
    /\ next_id <= MaxProducts
    /\ \E headers \in PostHeaders, data \in ValidBodies \cup InvalidBodies :
          LET out == create_products(db, next_id, headers, data) IN
          /\ Handled(Request("POST", NoId, headers, data, NoArgs), out)
          /\ next_id' = IF out.resp.status = HTTP_201_CREATED THEN next_id + 1 ELSE next_id

ListProducts ==
    /\ Idle
    /\ \E args \in Queries :
           /\ Handled(Request("GET", NoId, NoHeaders, JNull, args), list_products(db, args))
           /\ UNCHANGED next_id

GetProducts ==
    /\ Idle
    /\ \E product_id \in ProductIds :
           /\ Handled(Request("GET", product_id, NoHeaders, JNull, NoArgs),
                      get_products(db, product_id))
           /\ UNCHANGED next_id

UpdateProduct ==
    /\ Idle
    /\ \E product_id \in ProductIds, data \in PutData :
           /\ Handled(Request("PUT", product_id, NoHeaders, data, NoArgs),
                      update_product(db, product_id, data))
           /\ UNCHANGED next_id

DeleteProduct ==
    /\ Idle
    /\ \E product_id \in ProductIds :
           /\ Handled(Request("DELETE", product_id, NoHeaders, JNull, NoArgs),
                      delete_product(db, product_id))
           /\ UNCHANGED next_id

\* The request is over: its context, and with it the in-memory entity, is
\* dropped; only the store remains.
Teardown ==
    /\ ~Idle
    /\ request' = NoRequest
    /\ response' = NoResponse
    /\ events' = <<>>
    /\ entity' = <<>>
    /\ before' = <<>>
    /\ UNCHANGED <<db, next_id>>

Next ==
    \/ CreateProducts
    \/ ListProducts
    \/ GetProducts
    \/ UpdateProduct
    \/ DeleteProduct
    \/ Teardown

Spec == Init /\ [][Next]_vars


(***************************************************************************)
(* Vocabulary of the properties.  The field rules below are the            *)
(* specification's (section 4.2), stated apart from the transform table.   *)
(***************************************************************************)
UpdatableFields == {"name", "description", "available", "price", "category"}

\* The value is acceptable for the field.
Accepts(key, value) ==
    CASE key \in {"name", "description", "price"} -> value.t = "str"
      [] key = "available" -> value.t = "bool"
      [] key = "category" -> value.t = "str" /\ value.s \in CategoryMembers

\* The entry is processed to the end: known field, acceptable value, and a
\* price text that parses.
Applies(e) ==
    /\ e.k \in UpdatableFields
    /\ Accepts(e.k, e.v)
    /\ e.k = "price" => Decimal(e.v.s).ok

HasEvent(name) == \E i \in 1..Len(events) : events[i].ev = name
HasKeyEvent(name, key) == \E i \in 1..Len(events) : events[i] = Ev(name, key)
\* Some step of the update loop touched the entry with this key.
Processed(key) == \E i \in 1..Len(events) :
                     events[i].ev \in {"get", "matches", "converts", "setattr"}
                     /\ events[i].arg = key

\* The last request was a PUT on a product that was persisted.
PutOnExisting == request.method = "PUT" /\ request.product_id \in DOMAIN before
PutMapping == PutOnExisting /\ request.data.t = "obj"
\* The last request was a GET of the list.
ListRequest == request.method = "GET" /\ request.product_id = NoId

\* C1: a PUT on an existing product whose mapping body has some entry with
\* an unknown key or an unacceptable value never reaches update() and
\* persists nothing: the store is as before, and reading the product gives
\* every field as it was before the request.
C1_FailedUpdatePersistsNothing ==
    (PutMapping /\ \E i \in 1..Len(request.data.o) :
                      LET e == request.data.o[i] IN
                      e.k \notin UpdatableFields \/ ~Accepts(e.k, e.v))
    => /\ ~HasEvent("update")
       /\ db = before
       /\ get_products(db, request.product_id).resp
            = ObjectResponse(serialize(before[request.product_id]), HTTP_200_OK, "")

\* C1's case: an earlier valid entry was assigned on the in-memory entity,
\* a later entry failed with 422.
C1_Witness ==
    /\ PutMapping
    /\ response.status = HTTP_422_UNPROCESSABLE_ENTITY
    /\ HasEvent("setattr")
    /\ entity[1] /= before[request.product_id]
    /\ db = before


\* The first registered key of the query, in the order name, category,
\* available ("" when the query has none of them).
FirstKey(args) ==
    IF "name" \in DOMAIN args THEN "name"
    ELSE IF "category" \in DOMAIN args THEN "category"
    ELSE IF "available" \in DOMAIN args THEN "available"
    ELSE ""

\* C2: GET /products answers with the result of exactly one handler, the one
\* of the first key among name, category, available that the query has,
\* applied to that key's value alone: a failure of that handler is a 400
\* whatever the later keys hold, a success is its products serialized, and
\* no other handler runs.  Without any of the keys the answer is every
\* persisted product.
C2_FirstPresentFilterOnly ==
    ListRequest =>
        LET key == FirstKey(request.args) IN
        IF key = ""
        THEN /\ response = ListResponse({serialize(p) : p \in all(before)})
             /\ ~\E i \in 1..Len(events) : events[i].ev /= "all"
        ELSE LET r == filter_func(key, before, request.args[key]) IN
             /\ response = IF r.error THEN TextResponse(r.body, HTTP_400_BAD_REQUEST)
                           ELSE ListResponse({serialize(p) : p \in r.products})
             /\ events = <<Ev("all", "")>> \o r.events
             /\ db = before

\* C2's cases: the first key's handler succeeds although a later key is
\* invalid and would have narrowed the list.
C2_Witness ==
    /\ ListRequest
    /\ DOMAIN request.args = {"name", "category", "available"}
    /\ request.args["category"] = "FAKE"
    /\ request.args["available"] = "false"
    /\ response.status = HTTP_200_OK
    /\ \E p \in all(db) : serialize(p) \in response.items /\ p.available

\* The index of the first entry of a mapping that is not applied (0: none).
FirstFailing(o) ==
    IF \A i \in 1..Len(o) : Applies(o[i]) THEN 0
    ELSE CHOOSE i \in 1..Len(o) : ~Applies(o[i]) /\ \A j \in 1..(i - 1) : Applies(o[j])

UnknownKeyText(key) == "key '" \o key \o "' is not a valid field"

\* C3 as stated: whenever some entry of a non-empty mapping body has an
\* unknown key, the response is 422 naming that key, no later entry is
\* processed and update() is not invoked.
C3_AnyUnknownKeyIsNamed ==
    PutMapping =>
        \A i \in 1..Len(request.data.o) :
            request.data.o[i].k \notin UpdatableFields =>
                /\ response = TextResponse(UnknownKeyText(request.data.o[i].k),
                                           HTTP_422_UNPROCESSABLE_ENTITY)
                /\ \A j \in (i + 1)..Len(request.data.o) : ~Processed(request.data.o[j].k)
                /\ ~HasEvent("update")

\* C3 amended: when the first entry that is not applied is one with an
\* unknown key (every entry before it has a registered key and a value that
\* passes and converts), the response is 422 naming that key, the key was
\* looked up but nothing of it validated or assigned, no entry after it is
\* processed and update() is not invoked.
C3_FirstUnknownKeyIsNamed ==
    (PutMapping /\ FirstFailing(request.data.o) /= 0) =>
        LET i == FirstFailing(request.data.o)
            key == request.data.o[i].k
        IN  key \notin UpdatableFields =>
                /\ response = TextResponse(UnknownKeyText(key),
                                           HTTP_422_UNPROCESSABLE_ENTITY)
                /\ ~HasKeyEvent("matches", key) /\ ~HasKeyEvent("setattr", key)
                /\ \A j \in (i + 1)..Len(request.data.o) : ~Processed(request.data.o[j].k)
                /\ ~HasEvent("update")
                /\ db = before

\* C3's case: an unknown key after an applied entry, with an entry after it.
C3_Witness ==
    /\ PutMapping
    /\ Len(request.data.o) >= 2
    /\ Applies(request.data.o[1])
    /\ request.data.o[2].k = "id"
    /\ response = TextResponse("key 'id' is not a valid field",
                               HTTP_422_UNPROCESSABLE_ENTITY)


InvalidValueText(key, value) ==
    "field '" \o key \o "' has an invalid value (" \o PyStr(value) \o ")"

\* C4: when the update loop comes to an entry whose key is a registered
\* field and whose value the field does not accept (name, description and
\* price accept only text, category only a member name of the enumeration,
\* available only a boolean, so not the integers 10, 0 or 1), the response is
\* 422 "field '<field>' has an invalid value (<value>)" and the field is not
\* assigned.
C4_InvalidValueRejected ==
    (PutMapping /\ FirstFailing(request.data.o) /= 0) =>
        LET e == request.data.o[FirstFailing(request.data.o)] IN
        (e.k \in UpdatableFields /\ ~Accepts(e.k, e.v)) =>
            /\ response = TextResponse(InvalidValueText(e.k, e.v),
                                       HTTP_422_UNPROCESSABLE_ENTITY)
            /\ ~HasKeyEvent("setattr", e.k)
            /\ entity[1][e.k] = before[request.product_id][e.k]

\* C5: a PUT on an existing product whose body is a JSON document but no
\* mapping (array, string, number, boolean, null) answers 400 "body must be
\* a JSON object", never reaches the update loop and persists nothing.
C5_NonMappingBodyIs400 ==
    (PutOnExisting /\ request.data.t \in {"arr", "str", "int", "bool", "null"}) =>
        /\ response.status = HTTP_400_BAD_REQUEST
        /\ response.text = "body must be a JSON object"
        /\ ~HasEvent("get") /\ ~HasEvent("update")
        /\ db = before

\* C6: a PUT on an existing product with the empty mapping answers 422 "body
\* must be non-empty" before any field is looked up, validated or assigned,
\* and leaves the stored product as it was.
C6_EmptyMappingIs422 ==
    (PutOnExisting /\ request.data = JObj(<<>>)) =>
        /\ response = TextResponse("body must be non-empty", HTTP_422_UNPROCESSABLE_ENTITY)
        /\ events = <<Ev("find", IntToStr(request.product_id))>>
        /\ entity = <<before[request.product_id]>>
        /\ db = before

\* C6's case: the empty mapping was sent to a persisted product.
C6_Witness ==
    /\ PutOnExisting
    /\ request.data = JObj(<<>>)
    /\ response.status = HTTP_422_UNPROCESSABLE_ENTITY
    /\ Cardinality(DOMAIN db) = 2

\* C7: the list path never calls find_by_name with the empty name; a query
\* whose name is empty is answered 400 "name must not be empty" without any
\* lookup, whatever other keys the query has.
C7_EmptyNameNeverQueried ==
    ListRequest =>
        /\ ~HasKeyEvent("find_by_name", "")
        /\ ("name" \in DOMAIN request.args /\ request.args["name"] = "") =>
              /\ response = TextResponse("name must not be empty", HTTP_400_BAD_REQUEST)
              /\ \A i \in 1..Len(events) :
                    events[i].ev \notin {"find_by_name", "find_by_category",
                                         "find_by_availability"}

\* C7's case: an empty name next to other, valid keys, products persisted.
C7_Witness ==
    /\ ListRequest
    /\ DOMAIN request.args = {"name", "category", "available"}
    /\ request.args["name"] = ""
    /\ request.args["category"] = "CLOTHS"
    /\ request.args["available"] = "true"
    /\ response.status = HTTP_400_BAD_REQUEST
    /\ db /= <<>>


\* C8: when category is the first registered key of the query (name is
\* absent), a value that is no member name of the enumeration is answered
\* 400 "category '<value>' is not valid" without a category lookup, and a
\* member name (UNKNOWN included) is answered 200 with exactly the persisted
\* products of that category.
C8_CategoryFilter ==
    (ListRequest /\ FirstKey(request.args) = "category") =>
        LET value == request.args["category"] IN
        IF value \notin CategoryMembers
        THEN /\ response = TextResponse("category '" \o value \o "' is not valid",
                                        HTTP_400_BAD_REQUEST)
             /\ ~HasEvent("find_by_category")
        ELSE /\ response.status = HTTP_200_OK
             /\ response.kind = "list"
             /\ response.items = {serialize(p) : p \in {q \in all(before) :
                                                       q.category.enum = value}}

\* C8's case: the category UNKNOWN selects some persisted product and leaves
\* another out.
C8_Witness ==
    /\ ListRequest
    /\ FirstKey(request.args) = "category"
    /\ request.args["category"] = "UNKNOWN"
    /\ response.status = HTTP_200_OK
    /\ response.items /= {}
    /\ \E p \in all(db) : serialize(p) \notin response.items

\* C9: when available is the first registered key of the query (name and
\* category are absent), every value other than the literals "true" and
\* "false" is answered 400 "available value '<value>' is not true or false",
\* and the two literals are answered 200 with exactly the persisted products
\* whose available field is that boolean.
C9_AvailabilityFilter ==
    (ListRequest /\ FirstKey(request.args) = "available") =>
        LET value == request.args["available"] IN
        IF value /= "true" /\ value /= "false"
        THEN /\ response = TextResponse("available value '" \o value
                                            \o "' is not true or false",
                                        HTTP_400_BAD_REQUEST)
             /\ ~HasEvent("find_by_availability")
        ELSE /\ response.status = HTTP_200_OK
             /\ response.kind = "list"
             /\ response.items = {serialize(p) : p \in {q \in all(before) :
                                                 q.available = (value = "true")}}

\* C9's case: available=false selects some persisted product and leaves
\* another out.
C9_Witness ==
    /\ ListRequest
    /\ FirstKey(request.args) = "available"
    /\ request.args["available"] = "false"
    /\ response.status = HTTP_200_OK
    /\ response.items /= {}
    /\ \E p \in all(db) : serialize(p) \notin response.items

\* The last request was a POST of a valid product body as JSON.
ValidPost ==
    /\ request.method = "POST"
    /\ request.headers = ("Content-Type" :> "application/json")
    /\ request.data \in ValidBodies

\* What a created product's response and its read-back must agree on, the
\* price apart: 201 with a fresh id, the posted name, description,
\* available and category, a Location that the read route answers 200 with
\* the same product.
CreatedAndReadBack(item) ==
    LET posted == request.data.o IN
    /\ response.status = HTTP_201_CREATED
    /\ response.items = {item}
    /\ item.id \notin DOMAIN before /\ item.id \in DOMAIN db /\ item.id /= NoId
    /\ item.name = ObjGet(posted, "name").s
    /\ item.description = ObjGet(posted, "description").s
    /\ item.available = ObjGet(posted, "available").b
    /\ item.category = ObjGet(posted, "category").s
    /\ route_get_products(response.location) = item.id
    /\ get_products(db, route_get_products(response.location)).resp
         = ObjectResponse(item, HTTP_200_OK, "")

\* C10 as stated: a POST of any valid product body answers 201 with the
\* posted fields and a new id, and a GET of its Location answers 200 with
\* name, description, price, available and category identical to the posted
\* ones and with the assigned id.
C10_CreateThenReadIdentical ==
    ValidPost =>
        \E item \in response.items :
            /\ CreatedAndReadBack(item)
            /\ item.price = ObjGet(request.data.o, "price").s

\* C10 amended: as stated, except that the price read back is the posted
\* price as a decimal (same digits and scale), and is the posted text itself
\* when that text is the canonical text of its decimal.
C10_CreateThenReadEqual ==
    ValidPost =>
        \E item \in response.items :
            LET price == ObjGet(request.data.o, "price").s IN
            /\ CreatedAndReadBack(item)
            /\ Decimal(item.price) = Decimal(price)
            /\ (DecimalStr(Decimal(price).d) = price) => item.price = price

\* C10's case: a second product was created next to a persisted one, from a
\* body whose price text is canonical.
C10_Witness ==
    /\ ValidPost
    /\ response.status = HTTP_201_CREATED
    /\ before /= <<>>
    /\ ObjGet(request.data.o, "price").s = "7.5"
    /\ response.location = "/products/2"


\* The last request was a DELETE.
DeleteRequest == request.method = "DELETE"

\* Some list result over the store, filtered or not, has the product.
ListedSomewhere(store, id) ==
    \E args \in Queries :
        \E item \in list_products(store, args).resp.items : item.id = id

\* C11: a DELETE of a persisted product answers 204 with an empty body and
\* removes it: afterwards find(id) is absent, a GET of the id answers 404,
\* no list result has the product, and a second DELETE of the id answers 404
\* and changes nothing.  A DELETE of an id that is not persisted answers 404
\* "product not found" and leaves the store as it was.
C11_DeleteRemoves ==
    DeleteRequest =>
        LET id == request.product_id IN
        IF id \in DOMAIN before
        THEN /\ response = TextResponse("", HTTP_204_NO_CONTENT)
             /\ ~Found(db, id)
             /\ get_products(db, id).resp
                  = TextResponse("product not found", HTTP_404_NOT_FOUND)
             /\ ~ListedSomewhere(db, id)
             /\ delete_product(db, id).resp
                  = TextResponse("product not found", HTTP_404_NOT_FOUND)
             /\ delete_product(db, id).db = db
        ELSE /\ response = TextResponse("product not found", HTTP_404_NOT_FOUND)
             /\ db = before

\* C11's case: one of two persisted products was deleted, the other stays.
C11_Witness ==
    /\ DeleteRequest
    /\ response.status = HTTP_204_NO_CONTENT
    /\ Cardinality(DOMAIN before) = 2
    /\ Cardinality(DOMAIN db) = 1
    /\ ListedSomewhere(before, request.product_id)

\* C12: a GET or a PUT of an id with no persisted product answers 404 with
\* the text "product not found"; the PUT looks the product up and nothing
\* else, whatever its body is (absent, malformed, empty, no mapping, invalid
\* or valid fields), and the store is as before.
C12_AbsentIdIs404 ==
    (/\ request.method \in {"GET", "PUT"}
     /\ request.product_id /= NoId
     /\ request.product_id \notin DOMAIN before) =>
        /\ response = TextResponse("product not found", HTTP_404_NOT_FOUND)
        /\ events = <<Ev("find", IntToStr(request.product_id))>>
        /\ entity = <<>>
        /\ db = before

\* C12's case: a PUT without any body on an id that is not persisted, next
\* to a product that is.
C12_Witness ==
    /\ request.method = "PUT"
    /\ request.data = Absent
    /\ request.product_id \notin DOMAIN before
    /\ before /= <<>>
    /\ response.status = HTTP_404_NOT_FOUND

\* C13: a POST without a Content-Type header, or with one that is not
\* exactly "application/json", is aborted with 415 before the body is read:
\* nothing is deserialized, no product is created and the store is as before.
C13_WrongContentTypeIs415 ==
    (request.method = "POST"
     /\ request.headers /= ("Content-Type" :> "application/json")) =>
        /\ response = AbortResponse(HTTP_415_UNSUPPORTED_MEDIA_TYPE)
        /\ events = <<>>
        /\ entity = <<>>
        /\ db = before

\* C13's case: a valid product body sent as JSON with a charset parameter.
C13_Witness ==
    /\ request.method = "POST"
    /\ request.headers = ("Content-Type" :> "application/json; charset=utf-8")
    /\ request.data \in ValidBodies
    /\ response.status = HTTP_415_UNSUPPORTED_MEDIA_TYPE
    /\ db /= <<>>


\* The value a field takes from an entry it accepts: the text or boolean
\* itself, the decimal of a price text, the enumeration value of a category.
FieldValue(e) ==
    CASE e.k \in {"name", "description"} -> e.v.s
      [] e.k = "available" -> e.v.b
      [] e.k = "price" -> Decimal(e.v.s).d
      [] e.k = "category" -> CategoryGetItem(e.v.s)

RECURSIVE AssignFirst(_, _, _)
\* The product with the first n entries of the mapping assigned, in order.
AssignFirst(product, o, n) ==
    IF n = 0 THEN product
    ELSE [AssignFirst(product, o, n - 1) EXCEPT ![o[n].k] = FieldValue(o[n])]

\* The keys of the setattr steps, in the order the handler took them.
RECURSIVE AssignedKeys(_)
AssignedKeys(evs) ==
    IF evs = <<>> THEN <<>>
    ELSE IF evs[1].ev = "setattr" THEN <<evs[1].arg>> \o AssignedKeys(Tail(evs))
    ELSE AssignedKeys(Tail(evs))

\* The number of update() calls of the handler.
UpdateCalls == Cardinality({i \in 1..Len(events) : events[i].ev = "update"})

DocumentedStatuses ==
    {HTTP_200_OK, HTTP_400_BAD_REQUEST, HTTP_404_NOT_FOUND, HTTP_422_UNPROCESSABLE_ENTITY}

\* C14: a PUT on an existing product with a non-empty mapping body whose
\* keys are all registered fields and whose values all pass their field's
\* predicate (any text for price) ends in one of the statuses 200, 400, 404,
\* 422; every entry is converted and assigned in order, update() is invoked
\* exactly once and the response is 200 with the updated product.
C14_AcceptedEntriesAreApplied ==
    (/\ PutMapping
     /\ Len(request.data.o) > 0
     /\ \A i \in 1..Len(request.data.o) :
            /\ request.data.o[i].k \in UpdatableFields
            /\ Accepts(request.data.o[i].k, request.data.o[i].v)) =>
        LET o == request.data.o IN
        /\ response.status \in DocumentedStatuses
        /\ AssignedKeys(events) = [i \in 1..Len(o) |-> o[i].k]
        /\ \A i \in 1..Len(o) : o[i].k = "price" => Decimal(o[i].v.s).ok
        /\ entity = <<AssignFirst(before[request.product_id], o, Len(o))>>
        /\ UpdateCalls = 1
        /\ response = ObjectResponse(serialize(entity[1]), HTTP_200_OK, "")
        /\ db = update(before, entity[1])

\* The fields of a product other than its id.
FieldNames == {"name", "description", "price", "available", "category"}

\* A PUT that succeeded changed the fields its body names and nothing else:
\* the other fields and the id of the product, the number of persisted
\* products and every other product are as before.
SuccessfulPutFrame ==
    (PutOnExisting /\ response.status = HTTP_200_OK) =>
        LET id == request.product_id
            o == request.data.o
            named == {o[i].k : i \in 1..Len(o)}
        IN  /\ DOMAIN db = DOMAIN before
            /\ db[id].id = id /\ before[id].id = id
            /\ \A f \in FieldNames \ named : db[id][f] = before[id][f]
            /\ \A i \in 1..Len(o) : db[id][o[i].k] = FieldValue(o[i])
            /\ \A other \in DOMAIN before \ {id} : db[other] = before[other]

\* A mapping body with the key id is rejected with 422 and persists nothing.
IdKeyRejected ==
    (PutMapping /\ \E i \in 1..Len(request.data.o) : request.data.o[i].k = "id") =>
        /\ response.status = HTTP_422_UNPROCESSABLE_ENTITY
        /\ db = before

\* C15: a successful PUT changes exactly the fields named in its body, the
\* product's id, the number of persisted products and every other product
\* are unchanged, and a body with the key id is rejected with 422.
C15_UpdateFrame == SuccessfulPutFrame /\ IdKeyRejected

\* C16: the update loop takes the entries in insertion order and stops at
\* the first entry it cannot apply: the 422 response names that entry, the
\* in-memory entity holds the converted values of exactly the entries before
\* it, and that entry and every later one are not assigned.
C16_StopsAtFirstFailing ==
    (PutMapping /\ FirstFailing(request.data.o) /= 0) =>
        LET o == request.data.o
            i == FirstFailing(o)
        IN  /\ response \in {TextResponse(UnknownKeyText(o[i].k),
                                          HTTP_422_UNPROCESSABLE_ENTITY),
                             TextResponse(InvalidValueText(o[i].k, o[i].v),
                                          HTTP_422_UNPROCESSABLE_ENTITY)}
            /\ AssignedKeys(events) = [j \in 1..(i - 1) |-> o[j].k]
            /\ entity = <<AssignFirst(before[request.product_id], o, i - 1)>>
            /\ \A j \in i..Len(o) : ~HasKeyEvent("setattr", o[j].k)
            /\ db = before

====
